---- MODULE Spec2Model ----
(***************************************************************************)
(* Model of scripts/spatial_analysis_bbox.py: derivation of axis-aligned   *)
(* bounding boxes from element dictionaries, the containment classifier    *)
(* and the containment analysis loop.                                      *)
(*                                                                         *)
(* Python values.  A value is a record [k, n]:                             *)
(*   k = "absent"  the key is not in the dictionary                        *)
(*   k = "null"    None                                                    *)
(*   k = "int"     the integer n                                           *)
(*   k = "float"   the float n/2 (floats are counted in halves, which is   *)
(*                 exact for every number the model computes: the only     *)
(*                 non-integer operation of the code is  * 0.5)            *)
(*   k = "numstr"  the string that spells the integer n ("3")              *)
(*   k = "str"     a string that spells no number; n = 0 is ""             *)
(* A box coordinate is a float, kept as its number of halves.  NaN and the *)
(* infinities are outside this number domain.                              *)
(***************************************************************************)
EXTENDS Integers, Sequences, FiniteSets, TLC

VARIABLES
    phase,              \* which routine is running and where it stands
    element,            \* derivation: the element record handed to a strategy
    call,               \* derivation: the routine that was applied
    ret,                \* derivation: what it returned (box / none / raise)
    container_bb,       \* classifier and analysis: the container's box
    bb,                 \* classifier and analysis: the candidate's box
    eps,                \* classifier and analysis: the tolerance, in halves
    ctype,              \* classifier and analysis: the last classification
    container_element,  \* analysis: the container record
    candidate_elements, \* analysis: the candidate records, in input order
    idx,                \* analysis: number of candidates consumed by the loop
    results,            \* analysis: the result dictionary under construction
    returned            \* analysis: the dictionary handed back to the caller

vars == <<phase, element, call, ret, container_bb, bb, eps, ctype,
          container_element, candidate_elements, idx, results, returned>>

-----------------------------------------------------------------------------
(* Python values *)

Absent == [k |-> "absent", n |-> 0]
None == [k |-> "null", n |-> 0]
PyInt(n) == [k |-> "int", n |-> n]
PyFloat(h) == [k |-> "float", n |-> h]
NumStr(n) == [k |-> "numstr", n |-> n]
Str(i) == [k |-> "str", n |-> i]

\* bool(v) of a scalar value
Truthy(v) ==
    CASE v.k = "absent" -> FALSE
      [] v.k = "null" -> FALSE
      [] v.k = "int" -> v.n # 0
      [] v.k = "float" -> v.n # 0
      [] v.k = "numstr" -> TRUE
      [] v.k = "str" -> v.n # 0

\* d.get(key): the value, or None when the key is absent
Get(v) == IF v.k = "absent" THEN None ELSE v

\* d.get(key, default)
GetOr(v, default) == IF v.k = "absent" THEN default ELSE v

\* float(v): ok with the number of halves, or not ok (TypeError / ValueError)
float(v) ==
    CASE v.k = "int" -> [ok |-> TRUE, h |-> 2 * v.n]
      [] v.k = "float" -> [ok |-> TRUE, h |-> v.n]
      [] v.k = "numstr" -> [ok |-> TRUE, h |-> 2 * v.n]
      [] OTHER -> [ok |-> FALSE, h |-> 0]

\* min(xs), max(xs) of a non-empty list of floats
RECURSIVE min(_)
min(xs) ==
    IF Len(xs) = 1 THEN xs[1]
    ELSE LET m == min(Tail(xs)) IN IF xs[1] <= m THEN xs[1] ELSE m

RECURSIVE max(_)
max(xs) ==
    IF Len(xs) = 1 THEN xs[1]
    ELSE LET m == max(Tail(xs)) IN IF xs[1] >= m THEN xs[1] ELSE m

abs(h) == IF h < 0 THEN -h ELSE h

-----------------------------------------------------------------------------
(* Dictionaries.  A point-like dictionary carries the six coordinate keys  *)
(* the code reads; k says what kind of value sits there: "dict", "absent", *)
(* "null", or "other" (a truthy value that is not a dict: a list, a        *)
(* string, a number).                                                      *)

Point(k, x, y, z, X, Y, Z) ==
    [k |-> k, x |-> x, y |-> y, z |-> z, X |-> X, Y |-> Y, Z |-> Z]

NoPoint == Point("absent", Absent, Absent, Absent, Absent, Absent, Absent)
NullPoint == Point("null", Absent, Absent, Absent, Absent, Absent, Absent)
OtherPoint == Point("other", Absent, Absent, Absent, Absent, Absent, Absent)
EmptyDict == Point("dict", Absent, Absent, Absent, Absent, Absent, Absent)
\* {"x": x, "y": y, "z": z}
xyz(x, y, z) == Point("dict", x, y, z, Absent, Absent, Absent)
\* {"X": x, "Y": y, "Z": z}
XYZ(x, y, z) == Point("dict", Absent, Absent, Absent, x, y, z)

PointKeys(p) == {p.x, p.y, p.z, p.X, p.Y, p.Z} \ {Absent}

\* bool(p): a dict is truthy when it has a key
PointTruthy(p) ==
    CASE p.k = "dict" -> PointKeys(p) # {}
      [] p.k = "other" -> TRUE
      [] OTHER -> FALSE

\* a or b or {}
PointOr(a, b) ==
    IF PointTruthy(a) THEN a ELSE IF PointTruthy(b) THEN b ELSE EmptyDict

\* the box sub-record: {"min": .., "Min": .., "max": .., "Max": ..}
BoxDict(k, mn, Mn, mx, Mx) ==
    [k |-> k, min |-> mn, Min |-> Mn, max |-> mx, Max |-> Mx]

NoBoxDict == BoxDict("absent", NoPoint, NoPoint, NoPoint, NoPoint)
OtherBoxDict == BoxDict("other", NoPoint, NoPoint, NoPoint, NoPoint)
EmptyBoxDict == BoxDict("dict", NoPoint, NoPoint, NoPoint, NoPoint)

BoxDictTruthy(d) ==
    CASE d.k = "dict" -> \E p \in {d.min, d.Min, d.max, d.Max} : p.k # "absent"
      [] d.k = "other" -> TRUE
      [] OTHER -> FALSE

\* a list value: k = "list" with its items, or "absent" / "null" / "other"
List(items) == [k |-> "list", items |-> items]
NoList == [k |-> "absent", items |-> <<>>]
OtherList == [k |-> "other", items |-> <<>>]

ListTruthy(l) ==
    CASE l.k = "list" -> l.items # <<>>
      [] l.k = "other" -> TRUE
      [] OTHER -> FALSE

ListOr(a, b) == IF ListTruthy(a) THEN a ELSE b

\* element["geometry"] = {"mesh": {"vertices": ..}, "vertices": ..}
Geometry(k, mk, mv, v) ==
    [k |-> k, mesh |-> [k |-> mk, vertices |-> mv], vertices |-> v]

NoGeometry == Geometry("absent", "absent", NoList, NoList)

\* element["room"] = {"boundary_2d": .., "base_elevation": .., "height": ..}
Room(k, b, base, height) ==
    [k |-> k, boundary_2d |-> b, base_elevation |-> base, height |-> height]

NoRoom == Room("absent", NoList, Absent, Absent)

\* The element record: every key the modelled code reads.
EmptyElement ==
    [bbox |-> NoBoxDict, BBox |-> NoBoxDict,
     boundingBox |-> NoBoxDict, BoundingBox |-> NoBoxDict,
     geometry |-> NoGeometry,
     room_boundary_2d |-> NoList, boundary_2d |-> NoList, room |-> NoRoom,
     base_elevation |-> Absent, height |-> Absent,
     location |-> NoPoint, size |-> NoPoint,
     id |-> Absent, externalId |-> Absent,
     category |-> Absent, Category |-> Absent]

-----------------------------------------------------------------------------
(* BBox3D and the results of the routines that build one *)

Box(minx, miny, minz, maxx, maxy, maxz) ==
    [minx |-> minx, miny |-> miny, minz |-> minz,
     maxx |-> maxx, maxy |-> maxy, maxz |-> maxz]

NoBox == Box(0, 0, 0, 0, 0, 0)

\* What a routine hands back: a box, None, or an exception that leaves it.
Returned(b) == [st |-> "box", bb |-> b]
ReturnedNone == [st |-> "none", bb |-> NoBox]
Raised == [st |-> "raise", bb |-> NoBox]

\* BBox3D.__init__ without line 24: the z pair is never swapped.
BBox3D_NoSwapZ(minx, miny, minz, maxx, maxy, maxz) ==
    LET fs == <<float(minx), float(miny), float(minz),
                float(maxx), float(maxy), float(maxz)>>
    IN  IF \E i \in 1..6 : ~fs[i].ok THEN Raised
        ELSE Returned(Box(
            IF fs[1].h > fs[4].h THEN fs[4].h ELSE fs[1].h,
            IF fs[2].h > fs[5].h THEN fs[5].h ELSE fs[2].h,
            fs[3].h,
            IF fs[1].h > fs[4].h THEN fs[1].h ELSE fs[4].h,
            IF fs[2].h > fs[5].h THEN fs[2].h ELSE fs[5].h,
            fs[6].h))

\* BBox3D.__init__: coerce the six arguments, then swap each inverted pair.
\* A float() that fails leaves the constructor as an exception.
BBox3D(minx, miny, minz, maxx, maxy, maxz) ==
    LET fs == <<float(minx), float(miny), float(minz),
                float(maxx), float(maxy), float(maxz)>>
    IN  IF \E i \in 1..6 : ~fs[i].ok THEN Raised
        ELSE Returned(Box(
            IF fs[1].h > fs[4].h THEN fs[4].h ELSE fs[1].h,
            IF fs[2].h > fs[5].h THEN fs[5].h ELSE fs[2].h,
            IF fs[3].h > fs[6].h THEN fs[6].h ELSE fs[3].h,
            IF fs[1].h > fs[4].h THEN fs[1].h ELSE fs[4].h,
            IF fs[2].h > fs[5].h THEN fs[2].h ELSE fs[5].h,
            IF fs[3].h > fs[6].h THEN fs[3].h ELSE fs[6].h))

-----------------------------------------------------------------------------
(* _maybe_get along the three paths the code follows.  A step through a    *)
(* value that is not a dict, or a missing key, gives the default None; a   *)
(* None result and a missing one are both falsy and both fail the list     *)
(* test, so they are returned as the same absent list.                     *)

_maybe_get_geometry_mesh_vertices(elem) ==
    IF elem.geometry.k = "dict" /\ elem.geometry.mesh.k = "dict"
    THEN elem.geometry.mesh.vertices ELSE NoList

_maybe_get_geometry_vertices(elem) ==
    IF elem.geometry.k = "dict" THEN elem.geometry.vertices ELSE NoList

_maybe_get_room_boundary_2d(elem) ==
    IF elem.room.k = "dict" THEN elem.room.boundary_2d ELSE NoList

_maybe_get_room_base_elevation(elem) ==
    IF elem.room.k = "dict" THEN Get(elem.room.base_elevation) ELSE None

_maybe_get_room_height(elem) ==
    IF elem.room.k = "dict" THEN Get(elem.room.height) ELSE None

-----------------------------------------------------------------------------
(* Strategy 1: the direct box *)

_bbox_from_direct_dict(bbox_dict) ==
    IF bbox_dict.k # "dict" THEN ReturnedNone
    ELSE LET minp == PointOr(bbox_dict.min, bbox_dict.Min)
             maxp == PointOr(bbox_dict.max, bbox_dict.Max)
         IN  \* .get on a value that is no dict raises AttributeError, caught
             IF minp.k # "dict" \/ maxp.k # "dict" THEN ReturnedNone
             ELSE LET r == BBox3D(Get(minp.x), Get(minp.y), Get(minp.z),
                                  Get(maxp.x), Get(maxp.y), Get(maxp.z))
                  IN  IF r.st = "raise" THEN ReturnedNone ELSE r

\* element.get("bbox") or element.get("BBox") or element.get("boundingBox")
\*   or element.get("BoundingBox") or {}
direct_dict_of(elem) ==
    IF BoxDictTruthy(elem.bbox) THEN elem.bbox
    ELSE IF BoxDictTruthy(elem.BBox) THEN elem.BBox
    ELSE IF BoxDictTruthy(elem.boundingBox) THEN elem.boundingBox
    ELSE IF BoxDictTruthy(elem.BoundingBox) THEN elem.BoundingBox
    ELSE EmptyBoxDict

-----------------------------------------------------------------------------
(* Strategy 2: the envelope of the mesh vertices *)

\* One pass of the loop body of lines 72-78: the appends made before a
\* failing float() stay in their lists.
mesh_vertex(v, acc) ==
    IF v.k # "dict" THEN acc
    ELSE LET fx == float(GetOr(v.x, Get(v.X)))
             fy == float(GetOr(v.y, Get(v.Y)))
             fz == float(GetOr(v.z, Get(v.Z)))
         IN  IF ~fx.ok THEN acc
             ELSE IF ~fy.ok THEN [acc EXCEPT !.xs = Append(@, fx.h)]
             ELSE IF ~fz.ok THEN [acc EXCEPT !.xs = Append(@, fx.h),
                                             !.ys = Append(@, fy.h)]
             ELSE [xs |-> Append(acc.xs, fx.h), ys |-> Append(acc.ys, fy.h),
                   zs |-> Append(acc.zs, fz.h)]

RECURSIVE mesh_loop(_, _)
mesh_loop(verts, acc) ==
    IF verts = <<>> THEN acc
    ELSE mesh_loop(Tail(verts), mesh_vertex(Head(verts), acc))

_bbox_from_mesh_vertices(elem) ==
    LET verts == ListOr(_maybe_get_geometry_mesh_vertices(elem),
                        _maybe_get_geometry_vertices(elem))
    IN  IF verts.k # "list" \/ verts.items = <<>> THEN ReturnedNone
        ELSE LET a == mesh_loop(verts.items,
                                [xs |-> <<>>, ys |-> <<>>, zs |-> <<>>])
             IN  IF a.xs = <<>> \/ a.ys = <<>> \/ a.zs = <<>> THEN ReturnedNone
                 ELSE BBox3D(PyFloat(min(a.xs)), PyFloat(min(a.ys)),
                             PyFloat(min(a.zs)), PyFloat(max(a.xs)),
                             PyFloat(max(a.ys)), PyFloat(max(a.zs)))

-----------------------------------------------------------------------------
(* Strategy 3: the 2D boundary extruded by a height *)

\* One pass of the loop body of lines 89-94.
boundary_point(p, acc) ==
    IF p.k # "dict" THEN acc
    ELSE LET fx == float(GetOr(p.x, Get(p.X)))
             fy == float(GetOr(p.y, Get(p.Y)))
         IN  IF ~fx.ok THEN acc
             ELSE IF ~fy.ok THEN [acc EXCEPT !.xs = Append(@, fx.h)]
             ELSE [xs |-> Append(acc.xs, fx.h), ys |-> Append(acc.ys, fy.h)]

RECURSIVE boundary_loop(_, _)
boundary_loop(pts, acc) ==
    IF pts = <<>> THEN acc
    ELSE boundary_loop(Tail(pts), boundary_point(Head(pts), acc))

\* The least number of boundary points a polygon needs (line 86).
MinBoundaryPoints == 3

_bbox_from_boundary_height(elem) ==
    LET boundary == ListOr(elem.room_boundary_2d,
                           ListOr(elem.boundary_2d,
                                  _maybe_get_room_boundary_2d(elem)))
    IN  IF boundary.k # "list" \/ Len(boundary.items) < MinBoundaryPoints
        THEN ReturnedNone
        ELSE LET a == boundary_loop(boundary.items, [xs |-> <<>>, ys |-> <<>>])
                 base == GetOr(elem.base_elevation,
                               _maybe_get_room_base_elevation(elem))
                 height == GetOr(elem.height, _maybe_get_room_height(elem))
             IN  IF a.xs = <<>> \/ a.ys = <<>> THEN ReturnedNone
                 ELSE IF base.k = "null" \/ height.k = "null" THEN ReturnedNone
                 \* lines 101-102 stand outside any try
                 ELSE IF ~float(base).ok \/ ~float(height).ok THEN Raised
                 ELSE BBox3D(PyFloat(min(a.xs)), PyFloat(min(a.ys)),
                             PyFloat(float(base).h),
                             PyFloat(max(a.xs)), PyFloat(max(a.ys)),
                             PyFloat(float(base).h + float(height).h))

-----------------------------------------------------------------------------
(* Strategy 4: center and size *)

\* _bbox_from_location_size with line 111 reading z as it reads x and y,
\* without the default 0.
_bbox_from_location_size_NoZDefault(elem) ==
    LET loc == elem.location
        size == elem.size
    IN  IF loc.k # "dict" \/ size.k # "dict" THEN ReturnedNone
        ELSE LET cx == float(GetOr(loc.x, Get(loc.X)))
                 cy == float(GetOr(loc.y, Get(loc.Y)))
                 cz == float(GetOr(loc.z, Get(loc.Z)))
                 sx == float(GetOr(size.x, GetOr(size.X, PyInt(0))))
                 sy == float(GetOr(size.y, GetOr(size.Y, PyInt(0))))
                 sz == float(GetOr(size.z, GetOr(size.Z, PyInt(0))))
             IN  IF \E f \in {cx, cy, cz, sx, sy, sz} : ~f.ok THEN ReturnedNone
                 ELSE LET halfx == abs(sx.h) \div 2
                          halfy == abs(sy.h) \div 2
                          halfz == abs(sz.h) \div 2
                      IN  BBox3D(PyFloat(cx.h - halfx), PyFloat(cy.h - halfy),
                                 PyFloat(cz.h - halfz), PyFloat(cx.h + halfx),
                                 PyFloat(cy.h + halfy), PyFloat(cz.h + halfz))

_bbox_from_location_size(elem) ==
    LET loc == elem.location
        size == elem.size
    IN  IF loc.k # "dict" \/ size.k # "dict" THEN ReturnedNone
        ELSE LET cx == float(GetOr(loc.x, Get(loc.X)))
                 cy == float(GetOr(loc.y, Get(loc.Y)))
                 cz == float(GetOr(loc.z, GetOr(loc.Z, PyInt(0))))
                 sx == float(GetOr(size.x, GetOr(size.X, PyInt(0))))
                 sy == float(GetOr(size.y, GetOr(size.Y, PyInt(0))))
                 sz == float(GetOr(size.z, GetOr(size.Z, PyInt(0))))
             IN  IF \E f \in {cx, cy, cz, sx, sy, sz} : ~f.ok THEN ReturnedNone
                 ELSE LET halfx == abs(sx.h) \div 2
                          halfy == abs(sy.h) \div 2
                          halfz == abs(sz.h) \div 2
                      IN  BBox3D(PyFloat(cx.h - halfx), PyFloat(cy.h - halfy),
                                 PyFloat(cz.h - halfz), PyFloat(cx.h + halfx),
                                 PyFloat(cy.h + halfy), PyFloat(cz.h + halfz))

-----------------------------------------------------------------------------
(* compute_bbox_from_element: the strategies in their fixed order.  A      *)
(* BBox3D object is always truthy, so "if bb" asks only whether it is None;*)
(* an exception leaving a strategy leaves compute_bbox_from_element too.   *)

\* compute_bbox_from_element with lines 135-136 and 137-138 exchanged: the
\* mesh is tried before the direct box.
compute_bbox_mesh_first(elem) ==
    LET d == _bbox_from_direct_dict(direct_dict_of(elem))
        m == _bbox_from_mesh_vertices(elem)
        b == _bbox_from_boundary_height(elem)
        l == _bbox_from_location_size(elem)
    IN  IF m.st # "none" THEN m
        ELSE IF d.st # "none" THEN d
        ELSE IF b.st # "none" THEN b
        ELSE l

compute_bbox_from_element(elem) ==
    LET d == _bbox_from_direct_dict(direct_dict_of(elem))
        m == _bbox_from_mesh_vertices(elem)
        b == _bbox_from_boundary_height(elem)
        l == _bbox_from_location_size(elem)
    IN  IF d.st # "none" THEN d
        ELSE IF m.st # "none" THEN m
        ELSE IF b.st # "none" THEN b
        ELSE l

-----------------------------------------------------------------------------
(* ContainmentType and classify_containment_aabb *)

FullyContained == "FullyContained"
PartiallyContained == "PartiallyContained"
Outside == "Outside"
ContainmentType == {FullyContained, PartiallyContained, Outside}

\* classify_containment_aabb with the overlap test of lines 152-156 made
\* before the inside test of lines 147-151.
classify_overlap_first(container, elem, e) ==
    LET inside_x == elem.minx >= container.minx - e /\ elem.maxx <= container.maxx + e
        inside_y == elem.miny >= container.miny - e /\ elem.maxy <= container.maxy + e
        inside_z == elem.minz >= container.minz - e /\ elem.maxz <= container.maxz + e
        overlap_x == elem.maxx >= container.minx - e /\ elem.minx <= container.maxx + e
        overlap_y == elem.maxy >= container.miny - e /\ elem.miny <= container.maxy + e
        overlap_z == elem.maxz >= container.minz - e /\ elem.minz <= container.maxz + e
    IN  IF overlap_x /\ overlap_y /\ overlap_z THEN PartiallyContained
        ELSE IF inside_x /\ inside_y /\ inside_z THEN FullyContained
        ELSE Outside

classify_containment_aabb(container, elem, e) ==
    LET inside_x == elem.minx >= container.minx - e /\ elem.maxx <= container.maxx + e
        inside_y == elem.miny >= container.miny - e /\ elem.maxy <= container.maxy + e
        inside_z == elem.minz >= container.minz - e /\ elem.maxz <= container.maxz + e
        overlap_x == elem.maxx >= container.minx - e /\ elem.minx <= container.maxx + e
        overlap_y == elem.maxy >= container.miny - e /\ elem.miny <= container.maxy + e
        overlap_z == elem.maxz >= container.minz - e /\ elem.minz <= container.maxz + e
    IN  IF inside_x /\ inside_y /\ inside_z THEN FullyContained
        ELSE IF overlap_x /\ overlap_y /\ overlap_z THEN PartiallyContained
        ELSE Outside

-----------------------------------------------------------------------------
(* analyze_containment_by_bboxes.  The labels (names) of boxes and records *)
(* play no part in derivation, classification or bookkeeping and are left  *)
(* out of the records.                                                     *)

\* Strings are numbered: 0 is "", -1 is "Uncategorized", the rest are the
\* category names of the input.
Uncategorized == [k |-> "str", n |-> -1]

\* a or b, on scalar values read with .get
ScalarOr(a, b) == IF Truthy(a) THEN a ELSE Get(b)

\* elem.get("category") or elem.get("Category") or "Uncategorized"
category_of(elem) ==
    IF Truthy(elem.category) THEN elem.category
    ELSE IF Truthy(elem.Category) THEN elem.Category
    ELSE Uncategorized

\* Equality of two dictionary keys: an int and a float of the same value
\* are the same key.
KeyEq(a, b) ==
    \/ a = b
    \/ /\ a.k \in {"int", "float"} /\ b.k \in {"int", "float"}
       /\ float(a).h = float(b).h

\* The dictionary grouped_by_category as its items in insertion order:
\* grouped.setdefault(cat, []).append(rec)
setdefault_append(grouped, cat, rec) ==
    IF \E g \in 1..Len(grouped) : KeyEq(grouped[g].key, cat)
    THEN [g \in 1..Len(grouped) |->
            IF KeyEq(grouped[g].key, cat)
            THEN [grouped[g] EXCEPT !.items = Append(@, rec)]
            ELSE grouped[g]]
    ELSE Append(grouped, [key |-> cat, items |-> <<rec>>])

\* lines 163-173
NewResults(candidates) ==
    [container |-> [set |-> FALSE, bbox |-> NoBox],
     contained |-> <<>>,
     skipped |-> <<>>,
     summary |-> [total_candidates |-> Len(candidates),
                  fully_contained |-> 0,
                  partially_contained |-> 0],
     grouped_by_category |-> <<>>]

\* lines 177-180
ErrorMessage == "No bounding box could be derived for container element"
ErrorResult(ce) == [error |-> ErrorMessage, container_element |-> ce]

\* nothing returned yet
Pending == [pending |-> TRUE]

\* lines 190-194
SkippedRecord(elem) ==
    [id |-> ScalarOr(elem.id, elem.externalId), reason |-> "No geometry/bbox found"]

\* lines 200-208
ContainedRecord(elem, t, b) ==
    [id |-> ScalarOr(elem.id, elem.externalId),
     externalId |-> Get(elem.externalId),
     category |-> category_of(elem),
     containment_type |-> t,
     bbox |-> b]

\* lines 209-216 without the elif branch of lines 213-214.
Record_NoPartialCount(res, rec) ==
    [res EXCEPT
        !.contained = Append(@, rec),
        !.summary.fully_contained =
            IF rec.containment_type = FullyContained THEN @ + 1 ELSE @,
        !.grouped_by_category = setdefault_append(@, rec.category, rec)]

\* lines 209-216: what one contained candidate does to the results
Record(res, rec) ==
    [res EXCEPT
        !.contained = Append(@, rec),
        !.summary.fully_contained =
            IF rec.containment_type = FullyContained THEN @ + 1 ELSE @,
        !.summary.partially_contained =
            IF rec.containment_type = PartiallyContained THEN @ + 1 ELSE @,
        !.grouped_by_category = setdefault_append(@, rec.category, rec)]

-----------------------------------------------------------------------------
(* Inputs of the derivation routines *)

\* longest vertex list of a mesh
MaxVerts == 2
\* longest 2D boundary
MaxPoints == 3

\* all sequences over S of a length in lo..hi
SeqsOf(S, lo, hi) == UNION {[1..n -> S] : n \in lo..hi}

I3(t) == xyz(PyInt(t[1]), PyInt(t[2]), PyInt(t[3]))
C3(t) == XYZ(PyInt(t[1]), PyInt(t[2]), PyInt(t[3]))

WithDirect(key, d) ==
    CASE key = "bbox" -> [EmptyElement EXCEPT !.bbox = d]
      [] key = "BBox" -> [EmptyElement EXCEPT !.BBox = d]
      [] key = "boundingBox" -> [EmptyElement EXCEPT !.boundingBox = d]
      [] key = "BoundingBox" -> [EmptyElement EXCEPT !.BoundingBox = d]

\* a corner under the lowercase or the capitalized key
Corners(lowMin, mn, lowMax, mx) ==
    BoxDict("dict",
            IF lowMin THEN mn ELSE NoPoint, IF lowMin THEN NoPoint ELSE mn,
            IF lowMax THEN mx ELSE NoPoint, IF lowMax THEN NoPoint ELSE mx)

BoxKeys == {"bbox", "BBox", "boundingBox", "BoundingBox"}
MinTriples == {<<0, 0, 0>>, <<3, 1, 2>>}
MaxTriples == {<<2, 2, 2>>, <<1, 3, 0>>}
\* values that are no plain integer
OddValues == {Str(1), Str(0), None, Absent, NumStr(1)}

\* six numeric values under every combination of spellings
WellFormedDirect ==
    {WithDirect(key, Corners(lowMin, IF lowXmin THEN I3(mn) ELSE C3(mn),
                             lowMax, IF lowXmax THEN I3(mx) ELSE C3(mx))) :
        key \in BoxKeys, lowMin \in BOOLEAN, lowMax \in BOOLEAN,
        lowXmin \in BOOLEAN, lowXmax \in BOOLEAN,
        mn \in MinTriples, mx \in MaxTriples}

MalformedDirect ==
    {WithDirect("bbox", Corners(TRUE, xyz(v, PyInt(0), PyInt(0)),
                                TRUE, I3(<<2, 2, 2>>))) : v \in OddValues}
    \cup {WithDirect("bbox", Corners(TRUE, I3(<<0, 0, 0>>),
                                     FALSE, xyz(PyInt(2), PyInt(2), v))) :
            v \in OddValues}
    \cup {WithDirect("bbox", BoxDict("dict", mn, NoPoint, mx, NoPoint)) :
            mn \in {NoPoint, NullPoint, OtherPoint, EmptyDict, I3(<<0, 0, 0>>)},
            mx \in {NoPoint, OtherPoint, I3(<<2, 2, 2>>)}}
    \cup {WithDirect(key, OtherBoxDict) : key \in BoxKeys}
    \cup {[WithDirect("bbox", EmptyBoxDict) EXCEPT
              !.BoundingBox = Corners(TRUE, I3(<<0, 0, 0>>), TRUE, I3(<<2, 2, 2>>))],
          [WithDirect("bbox", Corners(TRUE, I3(<<0, 0, 0>>), TRUE, I3(<<2, 2, 2>>)))
              EXCEPT !.BBox = Corners(TRUE, I3(<<1, 1, 1>>), TRUE, I3(<<3, 3, 3>>))],
          WithDirect("bbox", BoxDict("dict", EmptyDict, I3(<<0, 0, 0>>),
                                     I3(<<2, 2, 2>>), I3(<<5, 5, 5>>)))}

DirectElements == WellFormedDirect \cup MalformedDirect

Vertices ==
    {I3(<<0, 0, 0>>), I3(<<2, 1, 3>>), C3(<<-1, 4, 1>>),
     xyz(PyInt(5), Str(1), PyInt(1)),      \* x parses, y does not
     xyz(PyInt(1), PyInt(6), Absent),      \* x and y parse, z is missing
     xyz(None, PyInt(7), PyInt(7)),        \* x does not parse
     OtherPoint}                           \* a vertex given as a list

VertexLists == {NoList, OtherList, List(<<>>)}
               \cup {List(vs) : vs \in SeqsOf(Vertices, 1, MaxVerts)}

MeshElements ==
    {[EmptyElement EXCEPT !.geometry = Geometry("dict", "dict", l, NoList)] :
        l \in VertexLists}
    \cup {[EmptyElement EXCEPT !.geometry = Geometry("dict", "absent", NoList, l)] :
            l \in VertexLists}
    \cup {[EmptyElement EXCEPT !.geometry =
              Geometry(k, "dict", List(<<I3(<<0, 0, 0>>)>>), List(<<I3(<<1, 1, 1>>)>>))] :
            k \in {"dict", "other", "null"}}
    \cup {[EmptyElement EXCEPT !.geometry =
              Geometry("dict", mk, l, List(<<I3(<<1, 1, 1>>)>>))] :
            mk \in {"other", "dict"}, l \in {List(<<>>), List(<<OtherPoint>>), OtherList}}

xy(x, y) == Point("dict", x, y, Absent, Absent, Absent, Absent)
XY(x, y) == Point("dict", Absent, Absent, Absent, x, y, Absent)

Points2D ==
    {xy(PyInt(0), PyInt(0)), xy(PyInt(4), PyInt(2)), XY(PyInt(1), PyInt(5)),
     xy(Str(1), PyInt(3)),                 \* x does not parse
     xy(PyInt(6), None)}                   \* x parses, y does not

Boundaries == {List(ps) : ps \in SeqsOf(Points2D, MinBoundaryPoints - 1, MaxPoints)}
Triangle == List(<<xy(PyInt(0), PyInt(0)), xy(PyInt(4), PyInt(2)), XY(PyInt(1), PyInt(5))>>)
Bases == {Absent, None, PyInt(0), PyInt(1), Str(1)}
Heights == {Absent, None, PyInt(2), PyInt(-3), Str(1), NumStr(2)}

BoundaryElements ==
    {[EmptyElement EXCEPT !.room_boundary_2d = l,
                          !.base_elevation = bh[1], !.height = bh[2]] :
        l \in Boundaries,
        bh \in {<<PyInt(1), PyInt(2)>>, <<PyInt(1), PyInt(-3)>>,
                <<Str(1), PyInt(2)>>, <<PyInt(0), Absent>>}}
    \cup {[EmptyElement EXCEPT !.room_boundary_2d = l,
                               !.base_elevation = b, !.height = h] :
            l \in {Triangle, List(<<xy(Str(1), PyInt(3)), OtherPoint, NoPoint>>)},
            b \in Bases, h \in Heights}
    \cup {[EmptyElement EXCEPT !.boundary_2d = Triangle,
                               !.room = Room(k, NoList, b, h)] :
            k \in {"dict", "other"}, b \in Bases, h \in {PyInt(2), Str(1)}}
    \cup {[EmptyElement EXCEPT !.room = Room("dict", Triangle, PyInt(1), PyInt(2)),
                               !.room_boundary_2d = l, !.height = h] :
            l \in {NoList, List(<<>>), OtherList}, h \in {Absent, None, PyInt(-3)}}

LocationSizeElements ==
    {[EmptyElement EXCEPT !.location = xyz(cx, cy, cz), !.size = xyz(sx, sy, sz)] :
        cx \in {Absent, PyInt(5), Str(1)}, cy \in {Absent, PyInt(5), None},
        cz \in {Absent, PyInt(0), PyInt(1), Str(1)},
        sx \in {Absent, PyInt(2), PyInt(-4), Str(1)},
        sy \in {Absent, PyInt(2), None}, sz \in {Absent, PyInt(2), Str(1)}}
    \cup {[EmptyElement EXCEPT !.location = l, !.size = sz] :
            l \in {NoPoint, NullPoint, OtherPoint, EmptyDict, C3(<<5, 5, 1>>),
                   Point("dict", Str(1), Absent, Absent, PyInt(5), PyInt(5), PyInt(1)),
                   Point("dict", PyInt(5), PyInt(5), Absent, Str(1), None, PyInt(1))},
            sz \in {NoPoint, OtherPoint, EmptyDict, C3(<<2, 2, 2>>), I3(<<2, 4, 6>>)}}

\* elements that carry several shapes at once
GoodDirect == Corners(TRUE, I3(<<0, 0, 0>>), TRUE, I3(<<2, 2, 2>>))
BadDirect == Corners(TRUE, I3(<<0, 0, 0>>), TRUE, xyz(PyInt(2), Str(1), PyInt(2)))
GoodMesh == Geometry("dict", "dict", List(<<I3(<<3, 3, 3>>), I3(<<4, 5, 6>>)>>), NoList)
BadMesh == Geometry("dict", "dict", List(<<OtherPoint>>), NoList)

MixedElements ==
    {[EmptyElement EXCEPT !.bbox = d, !.geometry = g,
                          !.room_boundary_2d = b[1], !.base_elevation = b[2],
                          !.height = b[3], !.location = l[1], !.size = l[2]] :
        d \in {NoBoxDict, GoodDirect, BadDirect},
        g \in {NoGeometry, GoodMesh, BadMesh},
        b \in {<<NoList, Absent, Absent>>, <<Triangle, PyInt(7), PyInt(2)>>,
               <<Triangle, PyInt(7), Absent>>, <<Triangle, Str(1), PyInt(2)>>},
        l \in {<<NoPoint, NoPoint>>, <<I3(<<9, 9, 9>>), I3(<<2, 2, 2>>)>>,
               <<I3(<<9, 9, 9>>), OtherPoint>>}}

DeriveElements ==
    DirectElements \cup MeshElements \cup BoundaryElements
        \cup LocationSizeElements \cup MixedElements

-----------------------------------------------------------------------------
(* Derivation: one routine applied to one element *)

InitDerive ==
    /\ phase = "derive"
    /\ element \in DeriveElements
    /\ call = "" /\ ret = ReturnedNone
    /\ container_bb = NoBox /\ bb = NoBox /\ eps = 0 /\ ctype = ""
    /\ container_element = EmptyElement /\ candidate_elements = <<>>
    /\ idx = 0 /\ results = NewResults(<<>>) /\ returned = Pending

Apply(name, r) ==
    /\ phase = "derive"
    /\ phase' = "derived" /\ call' = name /\ ret' = r
    /\ UNCHANGED <<element, container_bb, bb, eps, ctype, container_element,
                   candidate_elements, idx, results, returned>>

DeriveDirect ==
    Apply("_bbox_from_direct_dict", _bbox_from_direct_dict(direct_dict_of(element)))

DeriveMesh == Apply("_bbox_from_mesh_vertices", _bbox_from_mesh_vertices(element))

DeriveBoundary ==
    Apply("_bbox_from_boundary_height", _bbox_from_boundary_height(element))

DeriveLocationSize ==
    Apply("_bbox_from_location_size", _bbox_from_location_size(element))

DeriveCompute ==
    Apply("compute_bbox_from_element", compute_bbox_from_element(element))

NextDerive ==
    \/ DeriveDirect
    \/ DeriveMesh
    \/ DeriveBoundary
    \/ DeriveLocationSize
    \/ DeriveCompute

SpecDerive == InitDerive /\ [][NextDerive]_vars

-----------------------------------------------------------------------------
(* Classification: the classifier applied to one pair of boxes *)

\* largest box coordinate, in halves
MaxCoord == 3
\* largest tolerance, in halves
MaxEps == 1

\* the ranges a constructed box can have on one axis: min <= max
Ranges(S) == {r \in S \X S : r[1] <= r[2]}

BoxesOver(S) ==
    {Box(x[1], y[1], z[1], x[2], y[2], z[2]) :
        x \in Ranges(S), y \in Ranges(S), z \in Ranges(S)}

CandidateBoxes == BoxesOver(0..MaxCoord)
ContainerBoxes == BoxesOver({1, 2})

InitClassify ==
    /\ phase = "classify"
    /\ container_bb \in ContainerBoxes /\ bb \in CandidateBoxes
    /\ eps \in 0..MaxEps /\ ctype = ""
    /\ element = EmptyElement /\ call = "" /\ ret = ReturnedNone
    /\ container_element = EmptyElement /\ candidate_elements = <<>>
    /\ idx = 0 /\ results = NewResults(<<>>) /\ returned = Pending

Classify ==
    /\ phase = "classify"
    /\ phase' = "classified"
    /\ ctype' = classify_containment_aabb(container_bb, bb, eps)
    /\ UNCHANGED <<element, call, ret, container_bb, bb, eps, container_element,
                   candidate_elements, idx, results, returned>>

NextClassify == Classify

SpecClassify == InitClassify /\ [][NextClassify]_vars

-----------------------------------------------------------------------------
(* Analysis: analyze_containment_by_bboxes on a container and candidates *)

\* longest candidate list
MaxCandidates == 3

F3(t) == xyz(PyFloat(t[1]), PyFloat(t[2]), PyFloat(t[3]))

ContainerElements ==
    {WithDirect("bbox", Corners(TRUE, I3(<<0, 0, 0>>), TRUE, I3(<<4, 4, 4>>))),
     [EmptyElement EXCEPT !.room_boundary_2d = Triangle,
                          !.room = Room("dict", NoList, PyInt(0), PyInt(3))],
     EmptyElement,
     [EmptyElement EXCEPT !.room_boundary_2d = Triangle,
                          !.base_elevation = Str(1), !.height = PyInt(3)]}

CandidateShapes ==
    {\* inside the direct container
     [WithDirect("BBox", Corners(TRUE, I3(<<1, 1, 1>>), TRUE, I3(<<2, 2, 2>>)))
        EXCEPT !.category = Str(2)],
     [EmptyElement EXCEPT !.geometry =
        Geometry("dict", "dict", List(<<I3(<<1, 1, 1>>), I3(<<2, 2, 2>>)>>), NoList)],
     \* across its boundary
     [EmptyElement EXCEPT !.location = I3(<<4, 4, 2>>), !.size = I3(<<2, 2, 2>>),
                          !.Category = Str(2)],
     [WithDirect("bbox", Corners(TRUE, I3(<<3, 3, 3>>), TRUE, I3(<<6, 6, 6>>)))
        EXCEPT !.category = Str(3), !.Category = Str(2)],
     \* half a unit beyond it
     [WithDirect("bbox", Corners(TRUE, F3(<<9, 0, 0>>), TRUE, F3(<<12, 2, 2>>)))
        EXCEPT !.category = Str(0)],
     \* far from it
     [WithDirect("bbox", Corners(TRUE, I3(<<7, 7, 7>>), TRUE, I3(<<8, 8, 8>>)))
        EXCEPT !.category = Str(2)],
     \* no geometry at all
     [EmptyElement EXCEPT !.category = Str(3)],
     \* a boundary whose height is no number
     [EmptyElement EXCEPT !.room_boundary_2d = Triangle,
                          !.base_elevation = PyInt(0), !.height = Str(1)]}

\* the candidate at position i carries the id i
CandidateLists ==
    {[i \in DOMAIN shapes |-> [shapes[i] EXCEPT !.id = PyInt(i)]] :
        shapes \in SeqsOf(CandidateShapes, 0, MaxCandidates)}

\* the state at line 175: the results dictionary of lines 163-173 is built
Init ==
    /\ phase = "start"
    /\ container_element \in ContainerElements
    /\ candidate_elements \in CandidateLists
    /\ eps \in 0..MaxEps
    /\ idx = 0 /\ results = NewResults(candidate_elements) /\ returned = Pending
    /\ container_bb = NoBox /\ bb = NoBox /\ ctype = ""
    /\ element = EmptyElement /\ call = "" /\ ret = ReturnedNone

\* lines 175-185
AnalyzeContainer ==
    /\ phase = "start"
    /\ LET c == compute_bbox_from_element(container_element)
       IN  CASE c.st = "raise" ->
                 /\ phase' = "raised"
                 /\ UNCHANGED <<container_bb, results, returned>>
             [] c.st = "none" ->
                 /\ phase' = "error"
                 /\ returned' = ErrorResult(container_element)
                 /\ UNCHANGED <<container_bb, results>>
             [] c.st = "box" ->
                 /\ phase' = "loop"
                 /\ container_bb' = c.bb
                 /\ results' = [results EXCEPT !.container = [set |-> TRUE, bbox |-> c.bb]]
                 /\ UNCHANGED returned
    /\ UNCHANGED <<element, call, ret, bb, eps, ctype, container_element,
                   candidate_elements, idx>>

\* lines 187-216: one iteration of the loop
AnalyzeCandidate ==
    /\ phase = "loop"
    /\ idx < Len(candidate_elements)
    /\ LET elem == candidate_elements[idx + 1]
           c == compute_bbox_from_element(elem)
           t == classify_containment_aabb(container_bb, c.bb, eps)
       IN  CASE c.st = "raise" ->
                 /\ phase' = "raised"
                 /\ UNCHANGED <<bb, ctype, idx, results>>
             [] c.st = "none" ->
                 /\ results' = [results EXCEPT !.skipped = Append(@, SkippedRecord(elem))]
                 /\ bb' = NoBox
                 /\ idx' = idx + 1
                 /\ UNCHANGED <<phase, ctype>>
             [] c.st = "box" ->
                 /\ bb' = c.bb
                 /\ ctype' = t
                 /\ results' = IF t # Outside
                               THEN Record(results, ContainedRecord(elem, t, c.bb))
                               ELSE results
                 /\ idx' = idx + 1
                 /\ UNCHANGED phase
    /\ UNCHANGED <<element, call, ret, container_bb, eps, container_element,
                   candidate_elements, returned>>

\* line 218
AnalyzeReturn ==
    /\ phase = "loop"
    /\ idx = Len(candidate_elements)
    /\ phase' = "done"
    /\ returned' = results
    /\ UNCHANGED <<element, call, ret, container_bb, bb, eps, ctype,
                   container_element, candidate_elements, idx, results>>

Next ==
    \/ AnalyzeContainer
    \/ AnalyzeCandidate
    \/ AnalyzeReturn

Spec == Init /\ [][Next]_vars

-----------------------------------------------------------------------------
(* Properties *)

\* the value a pair of case-variant keys gives: the lowercase key if it is
\* present, else the capitalized one
Either(lower, upper) == IF lower.k # "absent" THEN lower ELSE upper

\* definitions for C1
Within(lo, hi, clo, chi, e) == (lo..hi) \subseteq ((clo - e)..(chi + e))
Meets(lo, hi, clo, chi, e) == (lo..hi) \cap ((clo - e)..(chi + e)) # {}
AllWithin(c, b, e) ==
    /\ Within(b.minx, b.maxx, c.minx, c.maxx, e)
    /\ Within(b.miny, b.maxy, c.miny, c.maxy, e)
    /\ Within(b.minz, b.maxz, c.minz, c.maxz, e)
AllMeet(c, b, e) ==
    /\ Meets(b.minx, b.maxx, c.minx, c.maxx, e)
    /\ Meets(b.miny, b.maxy, c.miny, c.maxy, e)
    /\ Meets(b.minz, b.maxz, c.minz, c.maxz, e)
ApartOnSomeAxis(c, b, e) ==
    \/ b.minx > c.maxx + e \/ b.maxx < c.minx - e
    \/ b.miny > c.maxy + e \/ b.maxy < c.miny - e
    \/ b.minz > c.maxz + e \/ b.maxz < c.minz - e

\* C1.  classify_containment_aabb returns exactly one of the three types:
\* FullyContained iff on all three axes the candidate range lies within the
\* container range widened by eps at both ends; otherwise PartiallyContained
\* iff on all three axes the candidate range meets the widened container
\* range; otherwise Outside.  A fully contained box is never reported as
\* partial, and ranges disjoint by more than eps on one axis give Outside.
C1_Classification ==
    phase = "classified" =>
        /\ ctype \in ContainmentType
        /\ ctype = FullyContained <=> AllWithin(container_bb, bb, eps)
        /\ ctype = PartiallyContained <=>
              ~AllWithin(container_bb, bb, eps) /\ AllMeet(container_bb, bb, eps)
        /\ ctype = Outside <=>
              ~AllWithin(container_bb, bb, eps) /\ ~AllMeet(container_bb, bb, eps)
        /\ ApartOnSomeAxis(container_bb, bb, eps) => ctype = Outside

\* a box that is within the container only thanks to eps, and meets it too
C1_Witness ==
    /\ phase = "classified" /\ eps = 1
    /\ bb.maxx = container_bb.maxx + 1
    /\ AllMeet(container_bb, bb, 0) /\ ~AllWithin(container_bb, bb, 0)
    /\ ctype = FullyContained

\* definitions for C2
RECURSIVE SumSizes(_)
SumSizes(groups) ==
    IF groups = <<>> THEN 0 ELSE Len(Head(groups).items) + SumSizes(Tail(groups))

\* the places <<group, position>> where a record stands in the groups
Places(groups, rec) ==
    UNION {{<<g, j>> : j \in {k \in 1..Len(groups[g].items) : groups[g].items[k] = rec}} :
              g \in 1..Len(groups)}

Consistent(r) ==
    /\ r.summary.fully_contained + r.summary.partially_contained = Len(r.contained)
    /\ SumSizes(r.grouped_by_category) = Len(r.contained)
    /\ \A i \in 1..Len(r.contained) :
          /\ Cardinality(Places(r.grouped_by_category, r.contained[i])) = 1
          /\ \A p \in Places(r.grouped_by_category, r.contained[i]) :
                KeyEq(r.grouped_by_category[p[1]].key, r.contained[i].category)

\* C2.  At every loop boundary and in the returned result,
\* fully_contained + partially_contained equals the length of contained and
\* the sum of the group sizes, and every contained record appears exactly
\* once, in the group keyed by its own category and in no other.
C2_CountsAndGroups ==
    /\ phase \in {"loop", "done"} => Consistent(results)
    /\ phase = "done" => Consistent(returned)

\* three contained records in two groups, one of them holding two
C2_Witness ==
    /\ phase = "done"
    /\ Len(returned.contained) = 3
    /\ Len(returned.grouped_by_category) = 2
    /\ returned.summary.fully_contained = 1
    /\ returned.summary.partially_contained = 2

\* definitions for C3
NoBoxDerivable(elem) == compute_bbox_from_element(elem).st # "box"
ClassifiesInside(elem) ==
    /\ compute_bbox_from_element(elem).st = "box"
    /\ classify_containment_aabb(container_bb,
                                 compute_bbox_from_element(elem).bb, eps) # Outside
Ids(recs) == [i \in DOMAIN recs |-> recs[i].id]

Disposed(r) ==
    /\ Ids(r.skipped) = Ids(SelectSeq(candidate_elements, NoBoxDerivable))
    /\ Ids(r.contained) = Ids(SelectSeq(candidate_elements, ClassifiesInside))
    /\ \A i \in DOMAIN r.contained :
          /\ r.contained[i].bbox =
                compute_bbox_from_element(candidate_elements[r.contained[i].id.n]).bb
          /\ r.contained[i].containment_type =
                classify_containment_aabb(container_bb, r.contained[i].bbox, eps)
    /\ {r.contained[i].id : i \in DOMAIN r.contained}
          \cap {r.skipped[i].id : i \in DOMAIN r.skipped} = {}
    /\ r.summary.total_candidates = Len(candidate_elements)

\* C3.  When the container's box derives, every candidate is disposed of in
\* exactly one way and the run never aborts: skipped is the candidates with
\* no derivable box, contained is those that classify FullyContained or
\* PartiallyContained, both in input order, none is in both, and
\* total_candidates is the length of the candidate list.
C3_EveryCandidateDisposed ==
    compute_bbox_from_element(container_element).st = "box" =>
        /\ phase # "raised"
        /\ phase = "done" => Disposed(returned)

\* What remains of C3 in the code: a run that is not aborted disposes of
\* every candidate as the claim says.
C3_DisposedUnlessAborted == phase = "done" => Disposed(returned)

\* C4.  If no box can be derived for the container, the analysis returns
\* the error result with the fixed message and the raw container element,
\* whatever the candidates; no candidate is processed, no partial result
\* is returned and no exception leaves the routine.
C4_ContainerErrorResult ==
    (compute_bbox_from_element(container_element).st # "box" /\ phase # "start") =>
        /\ phase = "error"
        /\ returned = [error |-> ErrorMessage, container_element |-> container_element]
        /\ idx = 0
        /\ results = NewResults(candidate_elements)

\* C5.  No derivation strategy raises past its own boundary: each of the
\* four strategies, and so compute_bbox_from_element, returns a box or None
\* for every element record.
C5_NoStrategyRaises == phase = "derived" => ret.st \in {"box", "none"}

\* C6.  compute_bbox_from_element returns the box of the first strategy, in
\* the order direct, mesh, boundary + height, center + size, that gives
\* one: a later strategy's box only if every earlier one gave None, and
\* None iff all four gave None.
C6_FirstSuccessWins ==
    phase = "derived" /\ call = "compute_bbox_from_element" =>
        LET d == _bbox_from_direct_dict(direct_dict_of(element))
            m == _bbox_from_mesh_vertices(element)
            b == _bbox_from_boundary_height(element)
            l == _bbox_from_location_size(element)
        IN  /\ d.st = "box" => ret = d
            /\ d.st = "none" /\ m.st = "box" => ret = m
            /\ d.st = "none" /\ m.st = "none" /\ b.st = "box" => ret = b
            /\ d.st = "none" /\ m.st = "none" /\ b.st = "none" /\ l.st = "box"
                  => ret = l
            /\ ret.st = "box" =>
                  \/ d.st = "box"
                  \/ d.st = "none" /\ m.st = "box"
                  \/ d.st = "none" /\ m.st = "none" /\ b.st = "box"
                  \/ d.st = "none" /\ m.st = "none" /\ b.st = "none" /\ l.st = "box"
            /\ ret.st = "none" <=>
                  d.st = "none" /\ m.st = "none" /\ b.st = "none" /\ l.st = "none"

\* the boundary strategy's box is returned, ahead of center + size, after
\* the direct box and the mesh both gave None
C6_Witness ==
    /\ phase = "derived" /\ call = "compute_bbox_from_element"
    /\ element.bbox = BadDirect /\ element.geometry = BadMesh
    /\ _bbox_from_location_size(element).st = "box"
    /\ ret.st = "box"
    /\ ret = _bbox_from_boundary_height(element)
    /\ ret # _bbox_from_location_size(element)

\* C7.  Every BBox3D that exists has minx <= maxx, miny <= maxy and
\* minz <= maxz, whether built from six coordinates in any order or by a
\* strategy, a negative height included: inverted pairs are swapped.
Ordered(b) == b.minx <= b.maxx /\ b.miny <= b.maxy /\ b.minz <= b.maxz

C7_MinBelowMax == phase = "derived" /\ ret.st = "box" => Ordered(ret.bb)

\* a boundary extruded by the height -3 from the base 1: the box runs from
\* -2 up to the base
C7_Witness ==
    /\ phase = "derived" /\ call = "_bbox_from_boundary_height"
    /\ element.base_elevation = PyInt(1) /\ element.height = PyInt(-3)
    /\ ret.st = "box" /\ ret.bb.minz = -4 /\ ret.bb.maxz = 2

\* definitions for C8
Numeric(v) == float(Get(v)).ok
Halves(v) == float(Get(v)).h

VertexParses(v) ==
    /\ v.k = "dict"
    /\ Numeric(Either(v.x, v.X))
    /\ Numeric(Either(v.y, v.Y))
    /\ Numeric(Either(v.z, v.Z))

MeshVertexList(elem) ==
    ListOr(_maybe_get_geometry_mesh_vertices(elem), _maybe_get_geometry_vertices(elem))

EnvelopeOfParsed(verts) ==
    LET ps == SelectSeq(verts, VertexParses)
        xs == [i \in DOMAIN ps |-> Halves(Either(ps[i].x, ps[i].X))]
        ys == [i \in DOMAIN ps |-> Halves(Either(ps[i].y, ps[i].Y))]
        zs == [i \in DOMAIN ps |-> Halves(Either(ps[i].z, ps[i].Z))]
    IN  IF ps = <<>> THEN ReturnedNone
        ELSE Returned(Box(min(xs), min(ys), min(zs), max(xs), max(ys), max(zs)))

\* C8.  In the mesh strategy a vertex that fails to parse (one of x, y, z
\* missing or no number) contributes to no axis: the box is the
\* componentwise min/max over exactly the vertices whose x, y and z all
\* parsed, and the strategy returns None when there is no such vertex.
C8_OnlyParsedVertices ==
    (/\ phase = "derived" /\ call = "_bbox_from_mesh_vertices"
     /\ MeshVertexList(element).k = "list" /\ MeshVertexList(element).items # <<>>)
    => ret = EnvelopeOfParsed(MeshVertexList(element).items)

\* definitions for C9
TheBoxDict(elem) ==
    CHOOSE d \in {elem.bbox, elem.BBox, elem.boundingBox, elem.BoundingBox} :
        d.k # "absent"

SixValues(elem) ==
    LET d == TheBoxDict(elem)
        mn == IF d.min.k # "absent" THEN d.min ELSE d.Min
        mx == IF d.max.k # "absent" THEN d.max ELSE d.Max
    IN  <<Either(mn.x, mn.X), Either(mn.y, mn.Y), Either(mn.z, mn.Z),
          Either(mx.x, mx.X), Either(mx.y, mx.Y), Either(mx.z, mx.Z)>>

Lower(a, b) == IF a <= b THEN a ELSE b
Upper(a, b) == IF a <= b THEN b ELSE a

\* C9.  In the direct strategy the box sub-record may stand under bbox,
\* BBox, boundingBox or BoundingBox, its corners under min/max or Min/Max
\* and the coordinates under x/y/z or X/Y/Z: for every such spelling of
\* six numeric values the strategy builds the box from those six values,
\* and it returns None only if a sub-record is missing or malformed or a
\* coordinate is no number.
C9_EverySpellingAccepted ==
    (phase = "derived" /\ call = "_bbox_from_direct_dict" /\ element \in WellFormedDirect)
    => LET v == SixValues(element)
       IN  /\ \A i \in 1..6 : v[i].k = "int"
           /\ ret = Returned(Box(
                  Lower(2 * v[1].n, 2 * v[4].n), Lower(2 * v[2].n, 2 * v[5].n),
                  Lower(2 * v[3].n, 2 * v[6].n), Upper(2 * v[1].n, 2 * v[4].n),
                  Upper(2 * v[2].n, 2 * v[5].n), Upper(2 * v[3].n, 2 * v[6].n)))

\* definitions for C10
CenterSizeBox(cx, cy, cz, sx, sy, sz) ==
    Returned(Box(cx - abs(sx) \div 2, cy - abs(sy) \div 2, cz - abs(sz) \div 2,
                 cx + abs(sx) \div 2, cy + abs(sy) \div 2, cz + abs(sz) \div 2))

\* the value of a coordinate that defaults to 0 when absent
OrZero(v) == IF v.k = "absent" THEN PyInt(0) ELSE v

\* C10.  In the center + size strategy, with location and size both
\* records, the result is [c - |s|/2, c + |s|/2] on each axis where only z
\* defaults to 0 when absent from either record; the strategy returns None
\* if either record is absent or no record, or if an x or y coordinate of
\* the center or of the size is absent or fails numeric coercion.
C10_OnlyZDefaults ==
    (phase = "derived" /\ call = "_bbox_from_location_size") =>
        LET loc == element.location
            size == element.size
            cx == Either(loc.x, loc.X)
            cy == Either(loc.y, loc.Y)
            cz == OrZero(Either(loc.z, loc.Z))
            sx == Either(size.x, size.X)
            sy == Either(size.y, size.Y)
            sz == OrZero(Either(size.z, size.Z))
        IN  IF loc.k # "dict" \/ size.k # "dict" THEN ret = ReturnedNone
            ELSE IF \E v \in {cx, cy, sx, sy} : v.k = "absent" \/ ~Numeric(v)
            THEN ret = ReturnedNone
            ELSE IF ~Numeric(cz) \/ ~Numeric(sz) THEN ret = ReturnedNone
            ELSE ret = CenterSizeBox(Halves(cx), Halves(cy), Halves(cz),
                                     Halves(sx), Halves(sy), Halves(sz))

\* C10 as amended.  With location and size both records, the result is
\* [c - |s|/2, c + |s|/2] on each axis, where the center's z and each of the
\* size's x, y and z default to 0 when absent; the strategy returns None if
\* either record is absent or no record, if the center's x or y is absent,
\* or if a coordinate that is present fails numeric coercion.
C10_SizeDefaultsToo ==
    (phase = "derived" /\ call = "_bbox_from_location_size") =>
        LET loc == element.location
            size == element.size
            cx == Either(loc.x, loc.X)
            cy == Either(loc.y, loc.Y)
            cz == OrZero(Either(loc.z, loc.Z))
            sx == OrZero(Either(size.x, size.X))
            sy == OrZero(Either(size.y, size.Y))
            sz == OrZero(Either(size.z, size.Z))
        IN  IF loc.k # "dict" \/ size.k # "dict" THEN ret = ReturnedNone
            ELSE IF cx.k = "absent" \/ cy.k = "absent" THEN ret = ReturnedNone
            ELSE IF \E v \in {cx, cy, cz, sx, sy, sz} : ~Numeric(v)
            THEN ret = ReturnedNone
            ELSE ret = CenterSizeBox(Halves(cx), Halves(cy), Halves(cz),
                                     Halves(sx), Halves(sy), Halves(sz))

\* a size with neither x nor z, around a center without z: the box has no
\* extent in x and in z, and lies at z = 0
C10_Witness ==
    /\ phase = "derived" /\ call = "_bbox_from_location_size"
    /\ element.location = xyz(PyInt(5), PyInt(5), Absent)
    /\ element.size = xyz(Absent, PyInt(2), Absent)
    /\ ret = Returned(Box(10, 8, 0, 10, 12, 0))

====
